---- MODULE Spec2Model ----
(***************************************************************************)
(* Model of the captcha page helper script, in its two variants:           *)
(*   "main"     - src/assets/main.js: the hydration runs at the top level  *)
(*                of the script;                                           *)
(*   "deferred" - src/unnamed/part_000: the hydration runs in a            *)
(*                DOMContentLoaded listener.                               *)
(* Both pages are modelled side by side, loaded from the same URL.         *)
(***************************************************************************)
EXTENDS Naturals, Sequences, FiniteSets, TLC

\* Bounds of the model.
MaxParams == 2      \* number of name=value pairs in the query string
MaxCalls == 2       \* invocations of captchaCallback per page

Variants == {"main", "deferred"}

\* ------------------------------------------------------------ JS values
Null == [type |-> "null"]
Undefined == [type |-> "undefined"]
Str(s) == [type |-> "string", val |-> s]

\* ToBoolean, as `if (x)` applies it to null and to strings.
Truthy(x) == x.type = "string" /\ x.val # ""

\* ------------------------------------------------------------ inputs
ParamNames == {"request-token", "redirect-url"}
ParamValues == {"", "r7Qk", "https://a.example/cb"}
Pairs == [name : ParamNames, value : ParamValues]
Urls == UNION {[1..n -> Pairs] : n \in 0..MaxParams}
Tokens == {Null, Str(""), Str("03AGdBq")}

InputIds == {"input-request-token", "input-redirect-url"}

\* url.searchParams.get(name): the value of the first pair called `name`,
\* or null when there is none.
RECURSIVE SearchParamsGet(_, _)
SearchParamsGet(query, name) ==
    IF query = <<>> THEN Null
    ELSE IF Head(query).name = name THEN Str(Head(query).value)
    ELSE SearchParamsGet(Tail(query), name)

\* ------------------------------------------------------------ state
VARIABLES
    url,     \* the query string of window.location.href, a sequence of pairs
    page,    \* per variant: the script's bindings and the DOM it touches
    calls,   \* per variant: how many times captchaCallback was invoked
    early,   \* per variant: captchaCallback was invoked before initialisation
    event    \* the last event dispatched and whether its handler threw

vars == <<url, page, calls, early, event>>

\* The form as the page's markup delivers it: fields empty, button disabled.
InitialValue == ""
InitialDisabled == TRUE

\* A page before its script is evaluated.  pc = "parsing" says the script's
\* bindings do not exist yet; invalidRequest and buttonSubmit are read only
\* once pc has left "parsing".
InitialPage ==
    [pc |-> "parsing",
     invalidRequest |-> FALSE,
     buttonSubmit |-> "undefined",
     value |-> [e \in InputIds |-> InitialValue],
     disabled |-> InitialDisabled,
     written |-> {}]

\* ------------------------------------------------------------ main.js
MainScript_EarlyExit(p, query) ==
    LET requestToken == SearchParamsGet(query, "request-token")
        redirectUrl == SearchParamsGet(query, "redirect-url")
    IN  IF ~Truthy(requestToken)
        THEN [p EXCEPT !.pc = "initialised", !.buttonSubmit = "button-submit",
                       !.invalidRequest = TRUE]
        ELSE LET p1 == [p EXCEPT !.pc = "initialised",
                                 !.buttonSubmit = "button-submit",
                                 !.invalidRequest = FALSE,
                                 !.value["input-request-token"] = requestToken.val,
                                 !.written = @ \cup {"input-request-token"}]
             IN  IF Truthy(redirectUrl)
                 THEN [p1 EXCEPT !.value["input-redirect-url"] = redirectUrl.val,
                                 !.written = @ \cup {"input-redirect-url"}]
                 ELSE [p1 EXCEPT !.invalidRequest = TRUE]

MainScript_NullCheck(p, query) ==
    LET requestToken == SearchParamsGet(query, "request-token")
        redirectUrl == SearchParamsGet(query, "redirect-url")
        p0 == [p EXCEPT !.pc = "initialised", !.buttonSubmit = "button-submit",
                        !.invalidRequest = FALSE]
        p1 == IF requestToken # Null
              THEN [p0 EXCEPT !.value["input-request-token"] = requestToken.val,
                              !.written = @ \cup {"input-request-token"}]
              ELSE [p0 EXCEPT !.invalidRequest = TRUE]
    IN  IF redirectUrl # Null
        THEN [p1 EXCEPT !.value["input-redirect-url"] = redirectUrl.val,
                        !.written = @ \cup {"input-redirect-url"}]
        ELSE [p1 EXCEPT !.invalidRequest = TRUE]

\* The whole top-level script of main.js, which runs to completion.
MainScript(p, query) ==
    LET requestToken == SearchParamsGet(query, "request-token")
        redirectUrl == SearchParamsGet(query, "redirect-url")
        p0 == [p EXCEPT !.pc = "initialised", !.buttonSubmit = "button-submit",
                        !.invalidRequest = FALSE]
        p1 == IF Truthy(requestToken)
              THEN [p0 EXCEPT !.value["input-request-token"] = requestToken.val,
                              !.written = @ \cup {"input-request-token"}]
              ELSE [p0 EXCEPT !.invalidRequest = TRUE]
    IN  IF Truthy(redirectUrl)
        THEN [p1 EXCEPT !.value["input-redirect-url"] = redirectUrl.val,
                        !.written = @ \cup {"input-redirect-url"}]
        ELSE [p1 EXCEPT !.invalidRequest = TRUE]

\* ------------------------------------------------------------ part_000
\* The top level of the deferred script: two bindings and a listener.
DeferredScript(p) ==
    [p EXCEPT !.pc = "defined", !.invalidRequest = FALSE,
              !.buttonSubmit = "undefined"]

DOMContentLoadedHandler_EarlyExit(p, query) ==
    LET requestToken == SearchParamsGet(query, "request-token")
        redirectUrl == SearchParamsGet(query, "redirect-url")
        p0 == [p EXCEPT !.pc = "initialised", !.buttonSubmit = "button-submit"]
    IN  IF ~Truthy(requestToken)
        THEN [p0 EXCEPT !.invalidRequest = TRUE]
        ELSE LET p1 == [p0 EXCEPT !.value["input-request-token"] = requestToken.val,
                                  !.written = @ \cup {"input-request-token"}]
             IN  IF Truthy(redirectUrl)
                 THEN [p1 EXCEPT !.value["input-redirect-url"] = redirectUrl.val,
                                 !.written = @ \cup {"input-redirect-url"}]
                 ELSE [p1 EXCEPT !.invalidRequest = TRUE]

DOMContentLoadedHandler_DropsSecondFlag(p, query) ==
    LET requestToken == SearchParamsGet(query, "request-token")
        redirectUrl == SearchParamsGet(query, "redirect-url")
        p0 == [p EXCEPT !.pc = "initialised", !.buttonSubmit = "button-submit"]
        p1 == IF Truthy(requestToken)
              THEN [p0 EXCEPT !.value["input-request-token"] = requestToken.val,
                              !.written = @ \cup {"input-request-token"}]
              ELSE [p0 EXCEPT !.invalidRequest = TRUE]
    IN  IF Truthy(redirectUrl)
        THEN [p1 EXCEPT !.value["input-redirect-url"] = redirectUrl.val,
                        !.written = @ \cup {"input-redirect-url"}]
        ELSE p1

\* The DOMContentLoaded listener of the deferred script.
DOMContentLoadedHandler(p, query) ==
    LET requestToken == SearchParamsGet(query, "request-token")
        redirectUrl == SearchParamsGet(query, "redirect-url")
        p0 == [p EXCEPT !.pc = "initialised", !.buttonSubmit = "button-submit"]
        p1 == IF Truthy(requestToken)
              THEN [p0 EXCEPT !.value["input-request-token"] = requestToken.val,
                              !.written = @ \cup {"input-request-token"}]
              ELSE [p0 EXCEPT !.invalidRequest = TRUE]
    IN  IF Truthy(redirectUrl)
        THEN [p1 EXCEPT !.value["input-redirect-url"] = redirectUrl.val,
                        !.written = @ \cup {"input-redirect-url"}]
        ELSE [p1 EXCEPT !.invalidRequest = TRUE]

\* ------------------------------------------------------------ callback
captchaCallback_NoGuard(p, captchaToken) ==
    IF p.buttonSubmit = "undefined"
    THEN [page |-> p, threw |-> TRUE]
    ELSE [page |-> [p EXCEPT !.disabled = FALSE,
                             !.written = @ \cup {"button-submit"}],
          threw |-> FALSE]

captchaCallback_AssignsFlag(p, captchaToken) ==
    IF p.buttonSubmit = "undefined"
    THEN [page |-> [p EXCEPT !.invalidRequest = FALSE], threw |-> TRUE]
    ELSE [page |-> [p EXCEPT !.invalidRequest = FALSE, !.disabled = FALSE,
                             !.written = @ \cup {"button-submit"}],
          threw |-> FALSE]

captchaCallback_ChecksToken(p, captchaToken) ==
    IF p.invalidRequest \/ ~Truthy(captchaToken)
    THEN [page |-> p, threw |-> FALSE]
    ELSE IF p.buttonSubmit = "undefined"
    THEN [page |-> p, threw |-> TRUE]
    ELSE [page |-> [p EXCEPT !.disabled = FALSE,
                             !.written = @ \cup {"button-submit"}],
          threw |-> FALSE]

captchaCallback_Toggles(p, captchaToken) ==
    IF p.invalidRequest
    THEN [page |-> p, threw |-> FALSE]
    ELSE IF p.buttonSubmit = "undefined"
    THEN [page |-> p, threw |-> TRUE]
    ELSE [page |-> [p EXCEPT !.disabled = ~@,
                             !.written = @ \cup {"button-submit"}],
          threw |-> FALSE]

\* captchaCallback(captchaToken), the same in both variants.  Assigning a
\* property of undefined throws a TypeError and changes nothing.
captchaCallback(p, captchaToken) ==
    IF p.invalidRequest
    THEN [page |-> p, threw |-> FALSE]
    ELSE IF p.buttonSubmit = "undefined"
    THEN [page |-> p, threw |-> TRUE]
    ELSE [page |-> [p EXCEPT !.disabled = FALSE,
                             !.written = @ \cup {"button-submit"}],
          threw |-> FALSE]

\* ------------------------------------------------------------ behaviour
NoEvent == [kind |-> "none", variant |-> "none", token |-> Undefined, threw |-> FALSE]

Init ==
    /\ url \in Urls
    /\ page = [v \in Variants |-> InitialPage]
    /\ calls = [v \in Variants |-> 0]
    /\ early = [v \in Variants |-> FALSE]
    /\ event = NoEvent

RunMainScript ==
    /\ page["main"].pc = "parsing"
    /\ page' = [page EXCEPT !["main"] = MainScript(@, url)]
    /\ event' = [kind |-> "script", variant |-> "main", token |-> Undefined,
                 threw |-> FALSE]
    /\ UNCHANGED <<url, calls, early>>

RunDeferredScript ==
    /\ page["deferred"].pc = "parsing"
    /\ page' = [page EXCEPT !["deferred"] = DeferredScript(@)]
    /\ event' = [kind |-> "script", variant |-> "deferred", token |-> Undefined,
                 threw |-> FALSE]
    /\ UNCHANGED <<url, calls, early>>

DOMContentLoaded ==
    /\ page["deferred"].pc = "defined"
    /\ page' = [page EXCEPT !["deferred"] = DOMContentLoadedHandler(@, url)]
    /\ event' = [kind |-> "DOMContentLoaded", variant |-> "deferred",
                 token |-> Undefined, threw |-> FALSE]
    /\ UNCHANGED <<url, calls, early>>

\* The captcha widget calls the global function, which exists once the
\* script has been evaluated.
CaptchaCallback(v, tok) ==
    /\ page[v].pc # "parsing"
    /\ calls[v] < MaxCalls
    /\ LET r == captchaCallback(page[v], tok)
       IN  /\ page' = [page EXCEPT ![v] = r.page]
           /\ event' = [kind |-> "captchaCallback", variant |-> v, token |-> tok,
                        threw |-> r.threw]
    /\ calls' = [calls EXCEPT ![v] = @ + 1]
    /\ early' = [early EXCEPT ![v] = @ \/ page[v].pc # "initialised"]
    /\ UNCHANGED url

Next ==
    \/ RunMainScript
    \/ RunDeferredScript
    \/ DOMContentLoaded
    \/ \E v \in Variants, tok \in Tokens : CaptchaCallback(v, tok)

Spec == Init /\ [][Next]_vars

\* ------------------------------------------------------------ lockstep
\* The two pages driven by the same events: the scripts are evaluated, the
\* document finishes loading (main.js registers no listener for it), then the
\* widget calls back with the same token in both.
LockScripts ==
    /\ page["main"].pc = "parsing"
    /\ page["deferred"].pc = "parsing"
    /\ page' = [page EXCEPT !["main"] = MainScript(@, url),
                            !["deferred"] = DeferredScript(@)]
    /\ event' = [kind |-> "script", variant |-> "both", token |-> Undefined,
                 threw |-> FALSE]
    /\ UNCHANGED <<url, calls, early>>

LockDOMContentLoaded ==
    /\ page["main"].pc = "initialised"
    /\ page["deferred"].pc = "defined"
    /\ page' = [page EXCEPT !["deferred"] = DOMContentLoadedHandler(@, url)]
    /\ event' = [kind |-> "DOMContentLoaded", variant |-> "both",
                 token |-> Undefined, threw |-> FALSE]
    /\ UNCHANGED <<url, calls, early>>

LockCaptchaCallback(tok) ==
    /\ \A v \in Variants : page[v].pc = "initialised" /\ calls[v] < MaxCalls
    /\ LET rm == captchaCallback(page["main"], tok)
           rd == captchaCallback(page["deferred"], tok)
       IN  /\ page' = [page EXCEPT !["main"] = rm.page, !["deferred"] = rd.page]
           /\ event' = [kind |-> "captchaCallback", variant |-> "both",
                        token |-> tok, threw |-> rm.threw \/ rd.threw]
    /\ calls' = [v \in Variants |-> calls[v] + 1]
    /\ UNCHANGED <<url, early>>

NextLockstep ==
    \/ LockScripts
    \/ LockDOMContentLoaded
    \/ \E tok \in Tokens : LockCaptchaCallback(tok)

SpecLockstep == Init /\ [][NextLockstep]_vars

\* ------------------------------------------------------------ vocabulary
Present(name) == SearchParamsGet(url, name) # Null
NonEmpty(name) == Truthy(SearchParamsGet(url, name))
BothPresent == Present("request-token") /\ Present("redirect-url")
BothNonEmpty == NonEmpty("request-token") /\ NonEmpty("redirect-url")
Initialised(v) == page[v].pc = "initialised"
FieldOf(name) ==
    IF name = "request-token" THEN "input-request-token" ELSE "input-redirect-url"
\* What a user or the form submission can observe of a page.
Obs(p) == [value |-> p.value, invalidRequest |-> p.invalidRequest,
           disabled |-> p.disabled]

\* ------------------------------------------------------------ claims

\* C1: given both query parameters, once captchaCallback has fired the submit
\* button is enabled, whatever the token.  Stated here in the reading most
\* favourable to the code: both parameters present with non-empty values.
C1_EnabledAfterCallback ==
    (event.kind = "captchaCallback" /\ BothNonEmpty)
        => ~page[event.variant].disabled

\* C2: when either query parameter is missing the submit button is disabled
\* in every reachable state, however often and whenever (before or after the
\* page load) captchaCallback is invoked.
C2_DisabledWhenMissing ==
    \A v \in Variants : ~BothPresent => page[v].disabled

C2_Witness ==
    /\ ~BothPresent
    /\ Initialised("deferred") /\ early["deferred"]
    /\ event.kind = "captchaCallback" /\ event.variant = "deferred"
    /\ Initialised("main") /\ calls["main"] = MaxCalls

\* C3: after the load-time initialisation each input field whose query
\* parameter was provided holds that parameter's value, also when the other
\* parameter is missing.
C3_FieldsReflectParams ==
    \A v \in Variants : \A n \in ParamNames :
        (Initialised(v) /\ Present(n))
            => Str(page[v].value[FieldOf(n)]) = SearchParamsGet(url, n)

C3_Witness ==
    /\ \A v \in Variants : Initialised(v)
    /\ ~Present("request-token")
    /\ SearchParamsGet(url, "redirect-url") = Str("https://a.example/cb")
    /\ \A v \in Variants :
          page[v].value["input-redirect-url"] = "https://a.example/cb"

\* C4 as stated: after initialisation invalidRequest is true exactly when a
\* parameter is absent from the URL, a parameter present with an empty value
\* not counting as absent.
C4_FlagIffAbsent ==
    \A v \in Variants :
        Initialised(v) => (page[v].invalidRequest <=> ~BothPresent)

\* C4 as amended: after initialisation invalidRequest is true exactly when a
\* parameter is absent from the URL or present with an empty value.
C4_FlagIffAbsentOrEmpty ==
    \A v \in Variants :
        Initialised(v) => (page[v].invalidRequest <=> ~BothNonEmpty)

C4_Witness ==
    /\ \A v \in Variants : Initialised(v) /\ page[v].invalidRequest
    /\ SearchParamsGet(url, "request-token") = Str("")
    /\ NonEmpty("redirect-url")

\* C5: invalidRequest is computed once at load time: after initialisation its
\* value never changes, no invocation of captchaCallback changes it, and once
\* true it is never false again.
C5_FlagComputedOnce ==
    [][\A v \in Variants :
          /\ Initialised(v)
                => page'[v].invalidRequest = page[v].invalidRequest
          /\ calls'[v] # calls[v]
                => page'[v].invalidRequest = page[v].invalidRequest
          /\ (page[v].pc # "parsing" /\ page[v].invalidRequest)
                => page'[v].invalidRequest]_vars

C5_Witness ==
    \A v \in Variants :
        Initialised(v) /\ page[v].invalidRequest /\ calls[v] = MaxCalls

\* C6: a missing parameter is no error: the load-time handler completes without
\* throwing, the field of the missing parameter is not written and keeps its
\* initial empty value, the other field is still filled in, and nothing else
\* happens than invalidRequest being set, so that the button stays disabled.
C6_MissingParamIsSilent ==
    /\ event.kind \in {"script", "DOMContentLoaded"} => ~event.threw
    /\ \A v \in Variants : \A n \in ParamNames :
          (Initialised(v) /\ ~Present(n)) =>
              /\ page[v].value[FieldOf(n)] = InitialValue
              /\ FieldOf(n) \notin page[v].written
              /\ page[v].invalidRequest
              /\ page[v].disabled
              /\ "button-submit" \notin page[v].written
              /\ \A m \in ParamNames \ {n} :
                    NonEmpty(m) =>
                        /\ Str(page[v].value[FieldOf(m)]) = SearchParamsGet(url, m)
                        /\ FieldOf(m) \in page[v].written

C6_Witness ==
    /\ ~Present("request-token") /\ NonEmpty("redirect-url")
    /\ event.kind = "DOMContentLoaded"
    /\ Initialised("deferred")
    /\ page["deferred"].written = {"input-redirect-url"}
    /\ page["deferred"].invalidRequest

\* C7: what captchaCallback does depends on invalidRequest only and not on its
\* token: from any reachable state, any two tokens (null and the empty string
\* included) give the same result, and the callback changes nothing but the
\* submit button's disabled property.
C7_TokenIrrelevant ==
    \A v \in Variants :
        page[v].pc # "parsing" =>
            /\ \A t1, t2 \in Tokens :
                  captchaCallback(page[v], t1) = captchaCallback(page[v], t2)
            /\ \A t \in Tokens :
                  LET q == captchaCallback(page[v], t).page
                  IN  /\ q.value = page[v].value
                      /\ q.invalidRequest = page[v].invalidRequest
                      /\ q.buttonSubmit = page[v].buttonSubmit
                      /\ q.pc = page[v].pc
                      /\ q.written \subseteq page[v].written \cup {"button-submit"}

C7_Witness ==
    /\ event.kind = "captchaCallback" /\ event.token = Null
    /\ ~page[event.variant].disabled
    /\ calls[event.variant] = 1

\* C8: in the DOMContentLoaded variant, under every interleaving of the load
\* event and the callback, a valid request whose callback has fired ends with
\* the button enabled: a callback that arrives before the listener has run
\* does not fail and is not lost.
C8_EarlyCallbackNotLost ==
    BothNonEmpty =>
        /\ (event.kind = "captchaCallback" /\ event.variant = "deferred")
              => ~event.threw
        /\ (Initialised("deferred") /\ calls["deferred"] > 0)
              => ~page["deferred"].disabled

\* C9: enabling is monotonic and the callback idempotent: no step disables the
\* button again, and a second invocation of captchaCallback leaves the page as
\* the first one left it.
C9_Idempotent ==
    \A v \in Variants :
        page[v].pc # "parsing" =>
            \A t1, t2 \in Tokens :
                LET once == captchaCallback(page[v], t1)
                    twice == captchaCallback(once.page, t2)
                IN  twice.page = once.page /\ twice.threw = once.threw

C9_MonotonicIdempotent ==
    /\ []C9_Idempotent
    /\ [][\A v \in Variants : ~page[v].disabled => ~page'[v].disabled]_vars

C9_Witness ==
    \E v \in Variants : calls[v] = 2 /\ ~page[v].disabled

\* C10: driven by the same URL and the same callbacks after initialisation,
\* the two variants agree after every step on the field values, on
\* invalidRequest and on the button's disabled state.
C10_VariantsAgree ==
    (\A v \in Variants : Initialised(v))
        => Obs(page["main"]) = Obs(page["deferred"])

C10_Witness ==
    /\ \A v \in Variants : Initialised(v) /\ calls[v] = 2 /\ ~page[v].disabled
    /\ event.kind = "captchaCallback" /\ event.token = Str("")

====
